---- MODULE Spec2Model ----
(***************************************************************************)
(* Frame-batch conversion pipeline of VR_180_streamlit: src/src/main.py    *)
(* (main, process_batch), src/src/anaglyph_processor.py (main_anaglyph,    *)
(* process_anaglyph_batch), src/src/video_reader.py, src/src/streaming.py, *)
(* src/src/frames_to_video.py, src/src/stitch.py.                          *)
(*                                                                         *)
(* The file system is the program's state.  A directory is a record        *)
(* [exists, files]; a file is a record [name, data].  File names are kept  *)
(* as the decimal digit strings the code formats into them, so that        *)
(* zero padding, string sorting and the segment-name pattern behave as in  *)
(* the code.                                                               *)
(***************************************************************************)
EXTENDS Integers, Sequences, FiniteSets, TLC

\* ---------------------------------------------------------------- bounds
MaxFrames == 3
MaxBatchSize == 2
MaxSegs == 2
MaxFps == 1
MaxReadFrames == 12
MaxReadBatch == 5
MaxCalls == 3
MaxWidth == 2
MaxCols == 3
MaxShift == 3
MaxSrc == 4
MaxAppenders == 2
MaxWindow == 3

\* ------------------------------------------------------ program constants
FramePad == 6
SegPad == 5
HlsTime == 2

\* ------------------------------------------------------------ file names
RECURSIVE Digits(_)
\* decimal digits of n, most significant first (the %d conversion)
Digits(n) == IF n < 10 THEN <<n>> ELSE Append(Digits(n \div 10), n % 10)

\* "%0wd": at least w digits, zero padded on the left, never truncated
ZeroPad(n, w) ==
    LET d == Digits(n)
    IN  IF Len(d) >= w THEN d ELSE [k \in 1..(w - Len(d)) |-> 0] \o d

RECURSIVE ParseInt(_)
\* int(): value of a digit string
ParseInt(d) ==
    IF Len(d) = 0 THEN 0
    ELSE 10 * ParseInt(SubSeq(d, 1, Len(d) - 1)) + d[Len(d)]

\* f"frame_{idx:06d}.png": the digits are the part of the name that varies
FrameName(idx) == ZeroPad(idx, FramePad)

\* "segment_%05d.ts" as ffmpeg expands it
SegmentName(n) == [stem |-> "segment", num |-> ZeroPad(n, SegPad), ext |-> "ts"]

\* "output.m3u8"
PlaylistName == [stem |-> "output", num |-> <<>>, ext |-> "m3u8"]

\* str < str for two names that differ only in their digits: the character
\* after the digits ('.') sorts before every digit
NameLess(a, b) ==
    \/ \E k \in 1..Len(a) :
          /\ k <= Len(b)
          /\ \A j \in 1..(k - 1) : a[j] = b[j]
          /\ a[k] < b[k]
    \/ /\ Len(a) < Len(b)
       /\ \A j \in 1..Len(a) : a[j] = b[j]

RECURSIVE sorted(_)
\* sorted(names): ascending in string order
sorted(S) ==
    IF S = {} THEN <<>>
    ELSE LET m == CHOOSE x \in S : \A y \in S \ {x} : NameLess(x, y)
         IN  <<m>> \o sorted(S \ {m})

\* ----------------------------------------------------------- directories
NoDir == [exists |-> FALSE, files |-> {}]
EmptyDir == [exists |-> TRUE, files |-> {}]

Names(dir) == {f.name : f \in dir.files}

\* the file of that name (the name is present)
FileAt(dir, name) == CHOOSE f \in dir.files : f.name = name

\* writing a file creates it or replaces the file of the same name
WriteFile(dir, name, data) ==
    [exists |-> TRUE,
     files |-> {f \in dir.files : f.name # name} \cup {[name |-> name, data |-> data]}]

RECURSIVE WriteAll(_, _)
\* a sequence of writes, in order
WriteAll(dir, ws) ==
    IF Len(ws) = 0 THEN dir
    ELSE WriteAll(WriteFile(dir, ws[1].name, ws[1].data), Tail(ws))

\* os.makedirs(p, exist_ok=True)
MakeDirs(dir) == [exists |-> TRUE, files |-> dir.files]

\* ------------------------------------------------ video_reader.py: batches
RECURSIVE ReadLoop(_, _, _, _, _, _)
\* the while-loop of read_and_write_batches over a source that decodes n
\* frames: one iteration per frame, then the flush of a non-empty remainder
ReadLoop(n, batch_size, frame_idx, batch_idx, current_batch, batches) ==
    IF frame_idx >= n
    THEN IF Len(current_batch) > 0
         THEN Append(batches, [batch_idx |-> batch_idx,
                               start_frame |-> frame_idx - Len(current_batch),
                               end_frame |-> frame_idx - 1,
                               frames |-> current_batch])
         ELSE batches
    ELSE LET cur == Append(current_batch, FrameName(frame_idx))
             nxt == frame_idx + 1
         IN  IF Len(cur) >= batch_size
             THEN ReadLoop(n, batch_size, nxt, batch_idx + 1, <<>>,
                           Append(batches, [batch_idx |-> batch_idx,
                                            start_frame |-> nxt - Len(cur),
                                            end_frame |-> nxt - 1,
                                            frames |-> cur]))
             ELSE ReadLoop(n, batch_size, nxt, batch_idx, cur, batches)

\* read_and_write_batches without the flush of the remainder after the loop
read_and_write_batches_noflush(n, batch_size) ==
    LET all == ReadLoop(n, batch_size, 0, 0, <<>>, <<>>)
    IN  SelectSeq(all, LAMBDA b : Len(b.frames) >= batch_size)

\* read_and_write_batches(input_video, frames_out_dir, batch_size): the
\* batch descriptors it returns for a source of n decodable frames
read_and_write_batches(n, batch_size) == ReadLoop(n, batch_size, 0, 0, <<>>, <<>>)

\* ------------------------------------------------ streaming.py: HLS append
\* pattern.match(name) for r"segment_(\d{5})\.ts$"
PatternMatch(name) ==
    /\ name.stem = "segment"
    /\ Len(name.num) = SegPad
    /\ name.ext = "ts"

SetMax(S) == CHOOSE x \in S : \A y \in S : y <= x

\* _next_segment_start_number(stream_dir)
NextSegmentStartNumber(stream_dir) ==
    LET idxs == IF stream_dir.exists
                THEN {ParseInt(nm.num) : nm \in {x \in Names(stream_dir) : PatternMatch(x)}}
                ELSE {}
        max_idx == IF idxs = {} THEN -1 ELSE SetMax(idxs)
    IN  IF max_idx >= 0 THEN max_idx + 1 ELSE 0

\* the playlist entries already in the directory (append_list keeps them)
PlaylistOf(dir) ==
    IF PlaylistName \in Names(dir) THEN FileAt(dir, PlaylistName).data.list ELSE <<>>

\* what ffmpeg writes for `k` segments of `batch_file` numbered from
\* start_number: the segment files, then the extended playlist
HlsWrites(dir, batch_file, start_number, k) ==
    [j \in 1..k |-> [name |-> SegmentName(start_number + j - 1),
                     data |-> [src |-> batch_file, part |-> j - 1, list |-> <<>>]]]
    \o <<[name |-> PlaylistName,
          data |-> [src |-> [kind |-> "playlist", idx |-> 0], part |-> 0,
                    list |-> PlaylistOf(dir) \o [j \in 1..k |-> start_number + j - 1]]]>>

\* add_batch_to_hls(batch_file, stream_dir, fps) when ffmpeg writes k
\* segments: the directory afterwards
add_batch_to_hls(stream_dir, batch_file, k) ==
    LET d == MakeDirs(stream_dir)
        start_number == NextSegmentStartNumber(d)
    IN  WriteAll(d, HlsWrites(d, batch_file, start_number, k))

\* what a failing ffmpeg leaves behind after writing p whole segments
add_batch_to_hls_partial(stream_dir, batch_file, p) ==
    LET d == MakeDirs(stream_dir)
        start_number == NextSegmentStartNumber(d)
    IN  IF p = 0 THEN d ELSE WriteAll(d, HlsWrites(d, batch_file, start_number, p))

\* a file that add_batch_to_hls wrote as a segment: "segment_%05d.ts" filled
\* in with some number
IsSegmentFile(name) ==
    /\ name.stem = "segment"
    /\ name.ext = "ts"
    /\ Len(name.num) >= 1
    /\ name.num = ZeroPad(ParseInt(name.num), SegPad)

\* the numbers of the segment files of a directory
SegmentNumbers(dir) == {ParseInt(nm.num) : nm \in {x \in Names(dir) : IsSegmentFile(x)}}

\* one call of add_batch_to_hls as the run's log keeps it: the segment
\* numbers that were in the directory before, the start number the scan
\* returned, the number of segments written, and whether the call returned
HlsCall(which, stream_dir, batch_file, k, ok) ==
    [dir |-> which, file |-> batch_file,
     before |-> SegmentNumbers(stream_dir),
     start |-> NextSegmentStartNumber(MakeDirs(stream_dir)),
     segs |-> k, ok |-> ok]

\* ------------------------------------------- frames_to_video.py: encoding
\* frames_to_segment raises ValueError when the directory holds no PNG
HasPng(frames_dir) == frames_dir.files # {}

\* the frames of the video frames_to_segment encodes: the PNG files of the
\* directory in sorted-name order
EncodedFrames(frames_dir) ==
    LET png_files == sorted(Names(frames_dir))
    IN  [j \in 1..Len(png_files) |-> FileAt(frames_dir, png_files[j]).data]

\* --------------------------------------------------- per-batch compositing
\* batch_generate_stereo: one left and one right image per frame of the
\* batch, under the frame's own file name
StereoDir(frames) ==
    [exists |-> TRUE,
     files |-> {[name |-> frames[j], data |-> [run |-> "cur", left |-> ParseInt(frames[j]),
                                               right |-> ParseInt(frames[j])]]
                : j \in 1..Len(frames)}]

\* zip(left_files, right_files) of the two sorted listings
ZipSorted(left_dir, right_dir) ==
    LET lf == sorted(Names(left_dir))
        rf == sorted(Names(right_dir))
        n == IF Len(lf) < Len(rf) THEN Len(lf) ELSE Len(rf)
    IN  [j \in 1..n |-> [name |-> lf[j],
                         data |-> [run |-> "cur",
                                   left |-> FileAt(left_dir, lf[j]).data.left,
                                   right |-> FileAt(right_dir, rf[j]).data.right]]]

\* batch_stack(left_dir, right_dir, out_dir): one stacked image per zipped
\* pair, written under the left file's name
batch_stack(left_dir, right_dir, out_dir) ==
    WriteAll(MakeDirs(out_dir), ZipSorted(left_dir, right_dir))

\* the anaglyph loop of process_anaglyph_batch: one image per zipped pair for
\* which create_anaglyph_from_stereo returns True; `skipped` are the left
\* file names for which it returns False
anaglyph_loop(left_dir, right_dir, out_dir, skipped) ==
    LET pairs == ZipSorted(left_dir, right_dir)
        kept == SelectSeq(pairs, LAMBDA w : w.name \notin skipped)
    IN  WriteAll(MakeDirs(out_dir), kept)

\* "Copy ... to frames_combined (ensure zeros-based ordering)": the sorted
\* files of the composite directory copied to frame_000000.png, ...
CopyRenumbered(src_dir, frames_combined) ==
    LET files == sorted(Names(src_dir))
    IN  WriteAll(MakeDirs(frames_combined),
                 [j \in 1..Len(files) |-> [name |-> FrameName(j - 1),
                                           data |-> FileAt(src_dir, files[j]).data]])

\* process_batch(batch_tuple, midas_obj, cfg): the batch's frames_combined
\* directory afterwards (VR180)
process_batch(batch, frames_combined) ==
    LET left_out == StereoDir(batch.frames)
        right_out == StereoDir(batch.frames)
        stereo_out == batch_stack(left_out, right_out, EmptyDir)
    IN  CopyRenumbered(stereo_out, frames_combined)

\* the number of composite frames the compositor produces for a batch of
\* which the frames named in `skipped` fail in create_anaglyph_from_stereo
CompositeCount(batch, skipped) ==
    Len(SelectSeq(ZipSorted(StereoDir(batch.frames), StereoDir(batch.frames)),
                  LAMBDA w : w.name \notin skipped))

\* --------------------------------------------- main.py: global assembly
\* the copy loop of main / main_anaglyph after `copied` files of the batch
\* have been copied: file j of the sorted batch listing lands at
\* frame_{next_index + j:06d}.png of the global sequence directory
CopyIntoSequence(all_frames_dir, frames_dir_batch, index0, copied) ==
    LET batch_files == sorted(Names(frames_dir_batch))
    IN  WriteAll(all_frames_dir,
                 [j \in 1..copied |-> [name |-> FrameName(index0 + j - 1),
                                       data |-> FileAt(frames_dir_batch, batch_files[j]).data]])

\* ------------------------------------------------- images and pixel code
\* An image file stores one colour [r, g, b] per pixel; the images here have
\* one row (the pixel code treats every row alike). None is what cv2.imread
\* returns for a file it cannot read: the image of no pixel at all.
None == <<>>

\* the colours of the test images: the three primaries and a colour whose
\* three channels all differ
PixelValues ==
    {[r |-> 255, g |-> 0, b |-> 0], [r |-> 0, g |-> 255, b |-> 0],
     [r |-> 0, g |-> 0, b |-> 255], [r |-> 10, g |-> 20, b |-> 30]}

\* the image files of 1..w pixels
ImageFiles(w) == UNION {[1..n -> PixelValues] : n \in 1..w}

\* cv2.imread: the array of the file, channels in OpenCV's order B, G, R
\* (array index c is element c + 1 of the pixel)
imread(file) ==
    IF file = None THEN None
    ELSE [x \in 1..Len(file) |-> <<file[x].b, file[x].g, file[x].r>>]

\* cv2.imwrite: the file of an array, whose channels it takes as B, G, R
imwrite(arr) == [x \in 1..Len(arr) |-> [b |-> arr[x][1], g |-> arr[x][2], r |-> arr[x][3]]]

\* channel c (0, 1, 2) of an array: arr[:, :, c]
Channel(arr, c) == [x \in 1..Len(arr) |-> arr[x][c + 1]]

\* numpy can assign a channel of `src` to a channel of `dst`: same width, or
\* a single column that is broadcast
Assignable(dst, src) == Len(src) = Len(dst) \/ Len(src) = 1

\* the value assigned at column x
Broadcast(chan, x) == IF Len(chan) = 1 THEN chan[1] ELSE chan[x]

\* create_anaglyph_from_stereo(left_path, right_path, output_path): the
\* return value and the file written (None when nothing is written);
\* write_ok is what cv2.imwrite returns
create_anaglyph_from_stereo(left_file, right_file, write_ok) ==
    LET l == imread(left_file)
        r == imread(right_file)
    IN  IF l = None \/ r = None THEN [ret |-> FALSE, file |-> None]
        ELSE IF ~Assignable(l, r) THEN [ret |-> FALSE, file |-> None]
        ELSE LET a == [x \in 1..Len(l) |->
                          <<Channel(l, 2)[x],
                            Broadcast(Channel(r, 1), x),
                            Broadcast(Channel(r, 0), x)>>]
             IN  [ret |-> write_ok, file |-> IF write_ok THEN imwrite(a) ELSE None]

\* np.zeros_like: the black pixel, which the masks take for a hole
Zero == <<0, 0, 0>>

\* the grey values of the test depth maps: nearest, middle, two thirds,
\* farthest
DepthValues == {0, 128, 170, 255}

\* the colours of the test frames: pure black, a primary, and a colour whose
\* three channels all differ
FrameValues ==
    {[r |-> 0, g |-> 0, b |-> 0], [r |-> 255, g |-> 0, b |-> 0],
     [r |-> 10, g |-> 20, b |-> 30]}

\* the frame files of 1..w pixels
FrameFiles(w) == UNION {[1..n -> FrameValues] : n \in 1..w}

\* depth.astype(np.float32) / 255.0 and (1 - depth) * max_shift are float32
\* operations: for v = 170 the float32 value of 1 - v/255 is 0.33333331, and
\* its product with a max_shift that is a multiple of 3 falls short of the
\* whole number the exact product is (0.99999994 for max_shift = 3). For the
\* other values of DepthValues the float32 product has the integer part of
\* the exact one.
Float32Short(v, max_shift) == v = 170 /\ max_shift > 0 /\ max_shift % 3 = 0

\* one element of shift[y].astype(np.int32): the float32 product truncated
\* toward zero
ShiftOf(v, max_shift) ==
    IF Float32Short(v, max_shift) THEN ((255 - v) * max_shift) \div 255 - 1
    ELSE ((255 - v) * max_shift) \div 255

\* shift = (1 - depth / 255) * max_shift, truncated by astype(np.int32);
\* depth None stands for np.ones, which is not divided by 255
ShiftRow(depth, max_shift, w) ==
    IF depth = None THEN [x \in 1..w |-> 0]
    ELSE [x \in 1..w |-> ShiftOf(depth[x], max_shift)]

\* the scatter loop of generate_stereo_from_depth_frame over one row, from
\* column x (0-based) on: left_eye[nl] and right_eye[nr] are overwritten in
\* the order of x
RECURSIVE ScatterRow(_, _, _, _)
ScatterRow(frame_row, dx_row, x, eyes) ==
    LET W == Len(frame_row)
    IN  IF x >= W THEN eyes
        ELSE LET dx == dx_row[x + 1]
                 nl == IF W - 1 < x + dx THEN W - 1 ELSE x + dx
                 nr == IF 0 > x - dx THEN 0 ELSE x - dx
             IN  ScatterRow(frame_row, dx_row, x + 1,
                            [left_eye |-> [eyes.left_eye EXCEPT ![nl + 1] = frame_row[x + 1]],
                             right_eye |-> [eyes.right_eye EXCEPT ![nr + 1] = frame_row[x + 1]]])

\* eye.sum(axis=2) == 0: the mask of the pixels whose channels sum to zero
HoleMask(eye) == [x \in 1..Len(eye) |-> eye[x][1] + eye[x][2] + eye[x][3] = 0]

\* what cv2.inpaint puts in a masked pixel: a value it derives from the
\* pixels around the hole, which is no pixel of the scatter
Inpainted == <<-1, -1, -1>>

\* cv2.inpaint(eye, mask, 3, cv2.INPAINT_TELEA): the masked pixels are
\* filled, the others are returned as they are
inpaint(eye, mask) == [x \in 1..Len(eye) |-> IF mask[x] THEN Inpainted ELSE eye[x]]

\* generate_stereo_from_depth_frame with the right eye filled under the left
\* eye's mask
generate_stereo_shared_mask(frame_arr, depth, max_shift) ==
    LET W == Len(frame_arr)
        zeros == [x \in 1..W |-> Zero]
        dx_row == ShiftRow(depth, max_shift, W)
        eyes == ScatterRow(frame_arr, dx_row, 0,
                           [left_eye |-> zeros, right_eye |-> zeros])
        mask_left == HoleMask(eyes.left_eye)
    IN  [shift |-> dx_row,
         left_eye |-> eyes.left_eye,
         right_eye |-> eyes.right_eye,
         mask_left |-> mask_left,
         mask_right |-> mask_left,
         ret |-> <<inpaint(eyes.left_eye, mask_left),
                   inpaint(eyes.right_eye, mask_left)>>]

\* generate_stereo_from_depth_frame(frame, depth, max_shift): the shifts of
\* the row, the two eyes the scatter leaves, the masks of their holes, and
\* the pair of inpainted eyes it returns
generate_stereo_from_depth_frame(frame_arr, depth, max_shift) ==
    LET W == Len(frame_arr)
        zeros == [x \in 1..W |-> Zero]
        dx_row == ShiftRow(depth, max_shift, W)
        eyes == ScatterRow(frame_arr, dx_row, 0,
                           [left_eye |-> zeros, right_eye |-> zeros])
        mask_left == HoleMask(eyes.left_eye)
        mask_right == HoleMask(eyes.right_eye)
    IN  [shift |-> dx_row,
         left_eye |-> eyes.left_eye,
         right_eye |-> eyes.right_eye,
         mask_left |-> mask_left,
         mask_right |-> mask_right,
         ret |-> <<inpaint(eyes.left_eye, mask_left),
                   inpaint(eyes.right_eye, mask_right)>>]

\* ------------------------------------------------------ projection.py
\* The mapping is computed here in thousandths, on a destination grid of four
\* columns and two rows, whose longitudes (-90, -45, 0, 45 degrees) and
\* latitudes (-45, 0 degrees) have the sines and cosines tabulated below.
OutCols == {0, 1, 2, 3}

output_width == Cardinality(OutCols)

\* output_height = output_width // 2
output_height == output_width \div 2

\* a / b rounded toward zero, for b > 0
TruncDiv(a, b) == IF a >= 0 THEN a \div b ELSE -((-a) \div b)

\* 1000 * np.sin and 1000 * np.cos of the grid's angles, in degrees
SinMilli(deg) ==
    CASE deg = -90 -> -1000 [] deg = -45 -> -707 [] deg = 0 -> 0 [] deg = 45 -> 707

CosMilli(deg) ==
    CASE deg = -90 -> 0 [] deg = -45 -> 707 [] deg = 0 -> 1000 [] deg = 45 -> 707

\* the fields of view of the test projections and 1000 * np.tan(fov_rad / 2):
\* two below 180 degrees, three above (the tangent of more than 90 degrees
\* is negative)
FovValues == {60, 140, 181, 200, 240}

TanHalfMilli(fov) ==
    CASE fov = 60 -> 577 [] fov = 140 -> 2747 [] fov = 181 -> -114589
      [] fov = 200 -> -5671 [] fov = 240 -> -1732

\* focal = (w / 2) / np.tan(fov_rad / 2), in thousandths
FocalMilli(w, fov) ==
    IF TanHalfMilli(fov) > 0
    THEN (w * 500000) \div TanHalfMilli(fov)
    ELSE -((w * 500000) \div (-TanHalfMilli(fov)))

\* longitude and latitude of a destination pixel, in degrees
Longitude(x_out) == (x_out * 180) \div output_width - 90
Latitude(y_out) == (y_out * 90) \div output_height - 45

\* the body of the loop of create_mapping_arrays for one destination pixel:
\* whether valid_mask is set
ValidAt(y_out, x_out, focal, w, h) ==
    LET longitude == Longitude(x_out)
        latitude == Latitude(y_out)
        x_dir == TruncDiv(CosMilli(latitude) * SinMilli(longitude), 1000)
        y_dir == SinMilli(latitude)
        z_dir == TruncDiv(CosMilli(latitude) * CosMilli(longitude), 1000)
    IN  /\ z_dir > 0
        /\ LET x_flat == TruncDiv(x_dir * focal, z_dir) + w * 500
               y_flat == TruncDiv((-y_dir) * focal, z_dir) + h * 500
           IN  /\ 0 <= x_flat /\ x_flat < (w - 1) * 1000
               /\ 0 <= y_flat /\ y_flat < (h - 1) * 1000

\* create_mapping_arrays(output_width, output_height, focal, w, h): the
\* valid_mask, row y_out + 1, column x_out + 1
create_mapping_arrays(focal, w, h) ==
    [y \in 1..output_height |->
        [x \in 1..output_width |-> ValidAt(y - 1, x - 1, focal, w, h)]]

\* flat_to_vr180_spherical_optimized(img, output_width, field_of_view) on an
\* image of one grey value: cv2.remap samples inside the image where the mask
\* is set, and result[~valid_mask] = 0 blackens the rest
flat_to_vr180_spherical_optimized(image, fov) ==
    LET valid_mask == create_mapping_arrays(FocalMilli(image.w, fov), image.w, image.h)
    IN  [valid_mask |-> valid_mask,
         result |-> [y \in 1..output_height |->
                        [x \in 1..output_width |->
                            IF valid_mask[y][x] THEN image.grey ELSE 0]]]

\* ------------------------------------------------------------ the state
VARIABLES
    mode,             \* "vr180" (main) or "anaglyph" (main_anaglyph)
    add_audio,        \* the add_audio argument
    nframes,          \* number of frames the source decodes
    batch_size,       \* cfg["video"]["batch_size"]
    fps,              \* cfg["video"]["output_fps"]
    pc,               \* position of the run in main / main_anaglyph
    batches,          \* the list read_and_write_batches returned
    i,                \* index of the batch loop
    next_index,       \* the global frame counter
    frames_combined,  \* TMP/batch_XXX/frames, per batch index
    anaglyph_out,     \* TMP/anaglyph/batch_XXX, per batch index
    all_frames,       \* TMP/all_frames (TMP/all_anaglyph_frames)
    tmp_videos,       \* TMP/batch_XXX.mp4: the per-batch encodes
    out_files,        \* the video files of the output directory
    stream,           \* output/stream
    final_hls,        \* output/final_hls
    hls_calls,        \* log: the calls of add_batch_to_hls, in order
    composited,       \* log: composite frames produced, per processed batch
    failed,           \* log: the steps that raised, in order
    completed,        \* log: the steps that returned
    reported,         \* the "Finished" line has been printed
    ret,              \* what the entry point returned ("running" before)
    left,             \* create_anaglyph_from_stereo: the left image file
    right,            \* create_anaglyph_from_stereo: the right image file
    anaglyph,         \* create_anaglyph_from_stereo: <<>>, then <<its result>>
    frame,            \* generate_stereo_from_depth_frame: the frame
    depth,            \* generate_stereo_from_depth_frame: the depth map
    max_shift,        \* generate_stereo_from_depth_frame: max_shift
    stereo,           \* generate_stereo_from_depth_frame: <<>>, then <<its result>>
    mapping_builds,   \* the calls of create_mapping_arrays in the run
    second_pc,        \* position of a second run on the same directories
    scanned,          \* concurrent appends: the start number each has scanned
    left_dir,         \* batch_stack: the directory of left images
    right_dir,        \* batch_stack: the directory of right images
    stereo_out,       \* batch_stack: the directory of stacked images
    img,              \* flat_to_vr180_spherical_optimized: the image
    field_of_view,    \* flat_to_vr180_spherical_optimized: field_of_view
    projection        \* flat_to_vr180_spherical_optimized: <<>>, then <<its result>>

vars == <<mode, add_audio, nframes, batch_size, fps, pc, batches, i, next_index,
          frames_combined, anaglyph_out, all_frames, tmp_videos, out_files,
          stream, final_hls, hls_calls, composited, failed, completed,
          reported, ret, left, right, anaglyph, frame, depth, max_shift, stereo,
          mapping_builds, second_pc, scanned, left_dir, right_dir, stereo_out,
          img, field_of_view, projection>>

pixels == <<left, right, anaglyph, frame, depth, max_shift, stereo>>

\* no call of the pixel functions is under way
NoPixels ==
    /\ left = None
    /\ right = None
    /\ anaglyph = <<>>
    /\ frame = None
    /\ depth = None
    /\ max_shift = 0
    /\ stereo = <<>>

aside == <<second_pc, scanned, left_dir, right_dir, stereo_out, img, field_of_view,
           projection>>

others == <<mapping_builds, aside>>

\* no projection is under way
NoProjection ==
    /\ img = [w |-> 0, h |-> 0, grey |-> 0]
    /\ field_of_view = 0
    /\ projection = <<>>

\* no batch_stack is under way
NoStack ==
    /\ left_dir = NoDir
    /\ right_dir = NoDir
    /\ stereo_out = NoDir

\* one run, one append at a time, nothing projected or stacked on its own
NoOthers ==
    /\ mapping_builds = 0
    /\ second_pc = "none"
    /\ scanned = <<>>
    /\ NoStack
    /\ NoProjection

inputs == <<mode, add_audio, nframes, batch_size, fps>>
tmp_tree == <<frames_combined, anaglyph_out, all_frames, tmp_videos>>
out_tree == <<out_files, stream, final_hls>>
logs == <<hls_calls, composited, failed, completed, reported, ret>>

BatchIdx == 0..(MaxFrames - 1)

\* file names in the output directory
CombinedOut == IF mode = "vr180" THEN "final_output.mp4" ELSE "final_output_anaglyph.mp4"
FinalWithMeta == "final_output_vr_180.mp4"

\* the files add_batch_to_hls is given
BatchMp4(k) == [kind |-> "batch", idx |-> k]
CombinedFile == [kind |-> "combined", idx |-> 0]
FinalMetaFile == [kind |-> "final_with_meta", idx |-> 0]
PrevFile == [kind |-> "previous_run", idx |-> 0]

\* ------------------------------------ what an earlier run has left behind
PrevBatches == read_and_write_batches(2 * MaxBatchSize, MaxBatchSize)

PrevData(idx) == [run |-> "prev", left |-> idx, right |-> idx]

PrevCombined(k) ==
    IF k + 1 <= Len(PrevBatches)
    THEN [exists |-> TRUE,
          files |-> {[name |-> FrameName(j - 1),
                      data |-> PrevData(PrevBatches[k + 1].start_frame + j - 1)]
                     : j \in 1..Len(PrevBatches[k + 1].frames)}]
    ELSE NoDir

PrevAnaglyph(k) ==
    IF k + 1 <= Len(PrevBatches)
    THEN [exists |-> TRUE,
          files |-> {[name |-> PrevBatches[k + 1].frames[j],
                      data |-> PrevData(PrevBatches[k + 1].start_frame + j - 1)]
                     : j \in 1..Len(PrevBatches[k + 1].frames)}]
    ELSE NoDir

PrevAllFrames ==
    [exists |-> TRUE,
     files |-> {[name |-> FrameName(j), data |-> PrevData(j)] : j \in 0..(2 * MaxBatchSize - 1)}]

PrevVideo == [frames |-> [j \in 1..(2 * MaxBatchSize) |-> PrevData(j - 1)],
              audio |-> FALSE, meta |-> FALSE]

\* a stream directory as `n` earlier segments leave it
PrevStream(n) == IF n = 0 THEN EmptyDir ELSE add_batch_to_hls(EmptyDir, PrevFile, n)

\* the working directories before the run: never used, or as a complete
\* earlier run left them
Fresh ==
    /\ frames_combined = [k \in BatchIdx |-> NoDir]
    /\ anaglyph_out = [k \in BatchIdx |-> NoDir]
    /\ all_frames = NoDir
    /\ tmp_videos = EmptyDir
    /\ out_files = NoDir
    /\ stream = NoDir
    /\ final_hls = NoDir

Stale ==
    /\ frames_combined = [k \in BatchIdx |-> PrevCombined(k)]
    /\ anaglyph_out = [k \in BatchIdx |-> PrevAnaglyph(k)]
    /\ all_frames = PrevAllFrames
    /\ tmp_videos = [exists |-> TRUE,
                     files |-> {[name |-> BatchMp4(k - 1), data |-> PrevVideo]
                                : k \in 1..Len(PrevBatches)}]
    /\ out_files = [exists |-> TRUE,
                    files |-> {[name |-> "final_output_anaglyph.mp4", data |-> PrevVideo]}]
    /\ stream = PrevStream(MaxSegs + 1)
    /\ final_hls = PrevStream(1)

Init ==
    /\ mode \in {"vr180", "anaglyph"}
    /\ add_audio \in BOOLEAN
    /\ nframes \in 0..MaxFrames
    /\ batch_size \in 1..MaxBatchSize
    /\ fps \in 1..MaxFps
    /\ pc = "purge"
    /\ batches = <<>>
    /\ i = 0
    /\ next_index = 0
    /\ Fresh \/ Stale
    /\ hls_calls = <<>>
    /\ composited = <<>>
    /\ failed = <<>>
    /\ completed = {}
    /\ reported = FALSE
    /\ ret = "running"
    /\ NoPixels
    /\ NoOthers

\* an exception leaves main / main_anaglyph
Raise(step) ==
    /\ pc' = "error"
    /\ failed' = Append(failed, step)
    /\ ret' = "raised"

\* --------------------------------------------------------------- actions
\* main 63-80 / main_anaglyph 160-173: "Cleanup previous run's artifacts".
\* The whole block sits in one try/except that prints a warning, so a
\* raising rmtree skips the rest of the block and the run goes on.
PurgeOk ==
    /\ pc = "purge"
    /\ frames_combined' = [k \in BatchIdx |-> NoDir]
    /\ anaglyph_out' = [k \in BatchIdx |-> NoDir]
    /\ all_frames' = NoDir
    /\ tmp_videos' = EmptyDir
    /\ out_files' = EmptyDir
    /\ stream' = EmptyDir
    /\ final_hls' = EmptyDir
    /\ completed' = completed \cup {"purge"}
    /\ pc' = "read"
    /\ UNCHANGED <<inputs, pixels, others, batches, i, next_index, hls_calls, composited, failed,
                   reported, ret>>

\* shutil.rmtree(tmp_root) raises on its first entry: nothing is removed
PurgeTmpFails ==
    /\ pc = "purge"
    /\ failed' = Append(failed, "purge")
    /\ pc' = "read"
    /\ UNCHANGED <<inputs, pixels, others, batches, i, next_index, tmp_tree, out_tree, hls_calls,
                   composited, completed, reported, ret>>

\* shutil.rmtree(out_root) raises on its first entry: the temporary tree is
\* gone (and not recreated), the output tree is untouched
PurgeOutFails ==
    /\ pc = "purge"
    /\ out_files.exists
    /\ frames_combined' = [k \in BatchIdx |-> NoDir]
    /\ anaglyph_out' = [k \in BatchIdx |-> NoDir]
    /\ all_frames' = NoDir
    /\ tmp_videos' = NoDir
    /\ failed' = Append(failed, "purge")
    /\ pc' = "read"
    /\ UNCHANGED <<inputs, pixels, others, batches, i, next_index, out_tree, hls_calls, composited,
                   completed, reported, ret>>

Purge == PurgeOk \/ PurgeTmpFails \/ PurgeOutFails

\* main 81-84: read_and_write_batches
ReadBatches ==
    /\ pc = "read"
    /\ batches' = read_and_write_batches(nframes, batch_size)
    /\ pc' = "midas"
    /\ UNCHANGED <<inputs, pixels, others, i, next_index, tmp_tree, out_tree, logs>>

\* main 87: Midas(...) loads the depth model
LoadMidas ==
    /\ pc = "midas"
    /\ \/ /\ pc' = "audio"
          /\ UNCHANGED <<failed, ret>>
       \/ Raise("midas")
    /\ UNCHANGED <<inputs, pixels, others, batches, i, next_index, tmp_tree, out_tree, hls_calls,
                   composited, completed, reported>>

\* main 91-93: extract_audio when add_audio
ExtractAudio ==
    /\ pc = "audio"
    /\ \/ /\ pc' = "reset_all"
          /\ completed' = IF add_audio THEN completed \cup {"extract_audio"} ELSE completed
          /\ UNCHANGED <<failed, ret>>
       \/ /\ add_audio
          /\ Raise("extract_audio")
          /\ UNCHANGED completed
    /\ UNCHANGED <<inputs, pixels, others, batches, i, next_index, tmp_tree, out_tree, hls_calls,
                   composited, reported>>

\* main 96-101: the global sequence directory is removed and recreated, and
\* the counter starts at 0
ResetAllFrames ==
    /\ pc = "reset_all"
    /\ \/ /\ all_frames' = EmptyDir
          /\ next_index' = 0
          /\ i' = 0
          /\ pc' = "batch"
          /\ UNCHANGED <<failed, ret>>
       \/ /\ Raise("reset_all")
          /\ UNCHANGED <<all_frames, next_index, i>>
    /\ UNCHANGED <<inputs, pixels, others, batches, frames_combined, anaglyph_out, tmp_videos, out_tree,
                   hls_calls, composited, completed, reported>>

\* batch processing with a failure that is caught and skipped: the loop goes
\* on to the assembly of whatever the batch directory holds
ProcessBatchSkips ==
    /\ pc = "batch"
    /\ i < Len(batches)
    /\ \/ /\ frames_combined' =
                [frames_combined EXCEPT ![i] = process_batch(batches[i + 1], @)]
          /\ composited' = Append(composited, CompositeCount(batches[i + 1], {}))
          /\ UNCHANGED failed
       \/ /\ failed' = Append(failed, "process_batch")
          /\ frames_combined' = [frames_combined EXCEPT ![i] = MakeDirs(@)]
          /\ composited' = Append(composited, 0)
    /\ pc' = "assemble"
    /\ mapping_builds' = IF mode = "vr180" THEN mapping_builds + 2 ELSE mapping_builds
    /\ UNCHANGED <<inputs, pixels, aside, batches, i, next_index, anaglyph_out, all_frames, tmp_videos,
                   out_tree, hls_calls, completed, reported, ret>>

\* main 103 / main_anaglyph 196: process_batch / process_anaglyph_batch on
\* batch i; an exception of a stage (depth, stereo, projection, the shape
\* check of stack_lr) leaves the run after frames_combined has been created.
\* process_batch calls batch_project for the left and for the right
\* directory, and each call builds the mapping with create_mapping_arrays;
\* an exception comes before, between or after the two calls
ProcessBatch ==
    /\ pc = "batch"
    /\ i < Len(batches)
    /\ \/ /\ mode = "vr180"
          /\ frames_combined' =
                [frames_combined EXCEPT ![i] = process_batch(batches[i + 1], @)]
          /\ composited' = Append(composited, CompositeCount(batches[i + 1], {}))
          /\ mapping_builds' = mapping_builds + 2
          /\ pc' = "assemble"
          /\ UNCHANGED <<anaglyph_out, failed, ret>>
       \/ /\ mode = "anaglyph"
          /\ \E skipped \in SUBSET {batches[i + 1].frames[j] : j \in 1..Len(batches[i + 1].frames)} :
                LET lr == StereoDir(batches[i + 1].frames)
                    out == anaglyph_loop(lr, lr, anaglyph_out[i], skipped)
                IN  /\ anaglyph_out' = [anaglyph_out EXCEPT ![i] = out]
                    /\ frames_combined' =
                          [frames_combined EXCEPT ![i] = CopyRenumbered(out, @)]
                    /\ composited' = Append(composited, CompositeCount(batches[i + 1], skipped))
          /\ pc' = "assemble"
          /\ UNCHANGED <<mapping_builds, failed, ret>>
       \/ /\ Raise("process_batch")
          /\ frames_combined' = [frames_combined EXCEPT ![i] = MakeDirs(@)]
          /\ \E built \in (IF mode = "vr180" THEN 0..2 ELSE {0}) :
                mapping_builds' = mapping_builds + built
          /\ UNCHANGED <<anaglyph_out, composited>>
    /\ UNCHANGED <<inputs, pixels, aside, batches, i, next_index, all_frames, tmp_videos, out_tree,
                   hls_calls, completed, reported>>

\* the assembly put off: the loop goes on without copying the batch's files
AppendBatchDeferred ==
    /\ pc = "assemble"
    /\ pc' = "hls"
    /\ UNCHANGED <<inputs, pixels, others, batches, i, next_index, tmp_tree, out_tree, logs>>

\* main 104-110: the batch's files are copied into the global sequence, the
\* counter advancing by one per copied file; a failing copy leaves the run
\* after the files copied so far
AppendBatch ==
    /\ pc = "assemble"
    /\ LET n == Cardinality(Names(frames_combined[i]))
       IN  \/ /\ all_frames' = CopyIntoSequence(all_frames, frames_combined[i], next_index, n)
              /\ next_index' = next_index + n
              /\ pc' = "hls"
              /\ UNCHANGED <<failed, ret>>
           \/ \E copied \in 0..(n - 1) :
                 /\ all_frames' = CopyIntoSequence(all_frames, frames_combined[i],
                                                   next_index, copied)
                 /\ next_index' = next_index + copied
                 /\ Raise("copy")
    /\ UNCHANGED <<inputs, pixels, others, batches, i, frames_combined, anaglyph_out, tmp_videos, out_tree,
                   hls_calls, composited, completed, reported>>

\* the number of segments ffmpeg cuts a video of n frames into: a keyframe
\* every fps frames (-g fps) and a cut every hls_time seconds, the last
\* segment taking the remainder
SegmentsOf(n) == (n + HlsTime * fps - 1) \div (HlsTime * fps)

\* the video frames_to_segment writes from a frame directory
Encoded(frames_dir) == [frames |-> EncodedFrames(frames_dir), audio |-> FALSE, meta |-> FALSE]

\* main 112-119 / main_anaglyph 205-212: the batch is encoded to a small MP4
\* and appended to output/stream; the try/except around both calls prints a
\* warning for any exception and the loop goes on with the next batch
BatchHlsOk ==
    /\ pc = "hls"
    /\ HasPng(frames_combined[i])
    /\ LET k == SegmentsOf(Cardinality(Names(frames_combined[i])))
       IN  /\ stream' = add_batch_to_hls(stream, BatchMp4(i), k)
           /\ hls_calls' = Append(hls_calls, HlsCall("stream", stream, BatchMp4(i), k, TRUE))
    /\ tmp_videos' = WriteFile(tmp_videos, BatchMp4(i), Encoded(frames_combined[i]))
    /\ i' = i + 1
    /\ pc' = "batch"
    /\ UNCHANGED <<inputs, pixels, others, batches, next_index, frames_combined, anaglyph_out, all_frames,
                   out_files, final_hls, composited, failed, completed, reported, ret>>

\* frames_to_segment raises (no PNG in the batch directory, or ffmpeg fails)
BatchEncodeFails ==
    /\ pc = "hls"
    /\ failed' = Append(failed, "batch_encode")
    /\ i' = i + 1
    /\ pc' = "batch"
    /\ UNCHANGED <<inputs, pixels, others, batches, next_index, tmp_tree, out_tree, hls_calls, composited,
                   completed, reported, ret>>

\* the append failure left uncaught: the exception leaves the run
BatchAppendAborts ==
    /\ pc = "hls"
    /\ HasPng(frames_combined[i])
    /\ stream' = add_batch_to_hls_partial(stream, BatchMp4(i), 0)
    /\ hls_calls' = Append(hls_calls, HlsCall("stream", stream, BatchMp4(i), 0, FALSE))
    /\ tmp_videos' = WriteFile(tmp_videos, BatchMp4(i), Encoded(frames_combined[i]))
    /\ Raise("batch_append")
    /\ UNCHANGED <<inputs, pixels, others, batches, i, next_index, frames_combined, anaglyph_out, all_frames,
                   out_files, final_hls, composited, completed, reported>>

\* add_batch_to_hls raises after ffmpeg has written p whole segments
BatchAppendFails ==
    /\ pc = "hls"
    /\ HasPng(frames_combined[i])
    /\ \E p \in 0..(SegmentsOf(Cardinality(Names(frames_combined[i]))) - 1) :
          /\ stream' = add_batch_to_hls_partial(stream, BatchMp4(i), p)
          /\ hls_calls' = Append(hls_calls, HlsCall("stream", stream, BatchMp4(i), p, FALSE))
    /\ tmp_videos' = WriteFile(tmp_videos, BatchMp4(i), Encoded(frames_combined[i]))
    /\ failed' = Append(failed, "batch_append")
    /\ i' = i + 1
    /\ pc' = "batch"
    /\ UNCHANGED <<inputs, pixels, others, batches, next_index, frames_combined, anaglyph_out, all_frames,
                   out_files, final_hls, composited, completed, reported, ret>>

BatchHls == BatchHlsOk \/ BatchEncodeFails \/ BatchAppendFails

\* the final encode with a failure path that cleans up the frame directory
FinalEncodeCleansUp ==
    /\ pc = "batch"
    /\ i >= Len(batches)
    /\ \/ /\ HasPng(all_frames)
          /\ out_files' = WriteFile(out_files, CombinedOut, Encoded(all_frames))
          /\ completed' = completed \cup {"final_encode"}
          /\ pc' = IF add_audio THEN "mux" ELSE "stream_combined"
          /\ UNCHANGED <<failed, ret, all_frames>>
       \/ /\ Raise("final_encode")
          /\ all_frames' = EmptyDir
          /\ UNCHANGED <<out_files, completed>>
    /\ UNCHANGED <<inputs, pixels, others, batches, i, next_index, frames_combined, anaglyph_out, tmp_videos,
                   stream, final_hls, hls_calls, composited, reported>>

\* main 121-123 / main_anaglyph 214-216: after the loop, the single final
\* video is encoded from the global sequence directory
FinalEncode ==
    /\ pc = "batch"
    /\ i >= Len(batches)
    /\ \/ /\ HasPng(all_frames)
          /\ out_files' = WriteFile(out_files, CombinedOut, Encoded(all_frames))
          /\ completed' = completed \cup {"final_encode"}
          /\ pc' = IF add_audio THEN "mux" ELSE "stream_combined"
          /\ UNCHANGED <<failed, ret>>
       \/ /\ Raise("final_encode")
          /\ UNCHANGED <<out_files, completed>>
    /\ UNCHANGED <<inputs, pixels, others, batches, i, next_index, tmp_tree, stream, final_hls, hls_calls,
                   composited, reported>>

\* main 126-129 / main_anaglyph 219-222: mux_audio_to_video, then os.replace
\* puts the muxed file in the place of the final video
MuxAudio ==
    /\ pc = "mux"
    /\ \/ /\ out_files' = WriteFile(out_files, CombinedOut,
                                    [FileAt(out_files, CombinedOut).data EXCEPT !.audio = TRUE])
          /\ completed' = completed \cup {"mux"}
          /\ pc' = "stream_combined"
          /\ UNCHANGED <<failed, ret>>
       \/ /\ Raise("mux")
          /\ UNCHANGED <<out_files, completed>>
    /\ UNCHANGED <<inputs, pixels, others, batches, i, next_index, tmp_tree, stream, final_hls, hls_calls,
                   composited, reported>>

\* main 131-133 / main_anaglyph 224-226: "Generate HLS assets for streaming
\* under output/stream": the final video is appended to output/stream,
\* outside any try
StreamCombined ==
    /\ pc = "stream_combined"
    /\ \/ /\ LET k == SegmentsOf(Len(FileAt(out_files, CombinedOut).data.frames))
             IN  /\ stream' = add_batch_to_hls(stream, CombinedFile, k)
                 /\ hls_calls' = Append(hls_calls,
                                        HlsCall("stream", stream, CombinedFile, k, TRUE))
          /\ completed' = completed \cup {"stream_combined"}
          /\ pc' = IF mode = "vr180" THEN "inject" ELSE "finished"
          /\ UNCHANGED <<failed, ret>>
       \/ /\ stream' = add_batch_to_hls_partial(stream, CombinedFile, 0)
          /\ hls_calls' = Append(hls_calls, HlsCall("stream", stream, CombinedFile, 0, FALSE))
          /\ Raise("stream_combined")
          /\ UNCHANGED completed
    /\ UNCHANGED <<inputs, pixels, others, batches, i, next_index, tmp_tree, out_files, final_hls,
                   composited, reported>>

\* the metadata injection with its failure caught and skipped
InjectMetadataSwallowed ==
    /\ pc = "inject"
    /\ \/ /\ out_files' = WriteFile(out_files, FinalWithMeta,
                                    [FileAt(out_files, CombinedOut).data EXCEPT !.meta = TRUE])
          /\ completed' = completed \cup {"inject"}
          /\ UNCHANGED failed
       \/ /\ failed' = Append(failed, "inject")
          /\ UNCHANGED <<out_files, completed>>
    /\ pc' = "finished"
    /\ UNCHANGED <<inputs, pixels, others, batches, i, next_index, tmp_tree, stream, final_hls, hls_calls,
                   composited, reported, ret>>

\* main 135-137: inject_vr180_metadata writes the _vr_180 file (VR180 only)
InjectMetadata ==
    /\ pc = "inject"
    /\ \/ /\ out_files' = WriteFile(out_files, FinalWithMeta,
                                    [FileAt(out_files, CombinedOut).data EXCEPT !.meta = TRUE])
          /\ completed' = completed \cup {"inject"}
          /\ pc' = "finished"
          /\ UNCHANGED <<failed, ret>>
       \/ /\ Raise("inject")
          /\ UNCHANGED <<out_files, completed>>
    /\ UNCHANGED <<inputs, pixels, others, batches, i, next_index, tmp_tree, stream, final_hls, hls_calls,
                   composited, reported>>

\* main 138 / main_anaglyph 228: the "Finished" line
Finished ==
    /\ pc = "finished"
    /\ reported' = TRUE
    /\ pc' = "final_hls"
    /\ UNCHANGED <<inputs, pixels, others, batches, i, next_index, tmp_tree, out_tree, hls_calls,
                   composited, failed, completed, ret>>

\* the file the final playlist is built from
FinalHlsInput == IF mode = "vr180" THEN FinalMetaFile ELSE CombinedFile

\* main 140-146 / main_anaglyph 230-236: the dedicated final playlist, in a
\* try/except that prints a warning; then the function returns: main falls
\* off its end, main_anaglyph returns combined_out
FinalHlsReturn ==
    /\ pc = "final_hls"
    /\ \/ /\ LET k == SegmentsOf(Len(FileAt(out_files, CombinedOut).data.frames))
             IN  /\ final_hls' = add_batch_to_hls(final_hls, FinalHlsInput, k)
                 /\ hls_calls' = Append(hls_calls,
                                        HlsCall("final_hls", final_hls, FinalHlsInput, k, TRUE))
          /\ completed' = completed \cup {"final_hls"}
          /\ UNCHANGED failed
       \/ /\ final_hls' = add_batch_to_hls_partial(final_hls, FinalHlsInput, 0)
          /\ hls_calls' = Append(hls_calls,
                                 HlsCall("final_hls", final_hls, FinalHlsInput, 0, FALSE))
          /\ failed' = Append(failed, "final_hls")
          /\ UNCHANGED completed
    /\ ret' = IF mode = "vr180" THEN "None" ELSE CombinedOut
    /\ pc' = "done"
    /\ UNCHANGED <<inputs, pixels, others, batches, i, next_index, tmp_tree, out_files, stream,
                   composited, reported>>

Next ==
    \/ Purge
    \/ ReadBatches
    \/ LoadMidas
    \/ ExtractAudio
    \/ ResetAllFrames
    \/ ProcessBatch
    \/ AppendBatch
    \/ BatchHls
    \/ FinalEncode
    \/ MuxAudio
    \/ StreamCombined
    \/ InjectMetadata
    \/ Finished
    \/ FinalHlsReturn

Spec == Init /\ [][Next]_vars

\* ------------------------------------------- the frame extractor on its own
\* read_and_write_batches applied to sources of 0..MaxReadFrames frames with
\* batch sizes 1..MaxReadBatch
InitRead ==
    /\ mode = "vr180"
    /\ add_audio = FALSE
    /\ nframes \in 0..MaxReadFrames
    /\ batch_size \in 1..MaxReadBatch
    /\ fps = 1
    /\ pc = "read"
    /\ batches = <<>>
    /\ i = 0
    /\ next_index = 0
    /\ Fresh
    /\ hls_calls = <<>>
    /\ composited = <<>>
    /\ failed = <<>>
    /\ completed = {}
    /\ reported = FALSE
    /\ ret = "running"
    /\ NoPixels
    /\ NoOthers

SpecRead == InitRead /\ [][ReadBatches]_vars

\* ------------------------------------------ the stream publisher on its own
\* a directory holding exactly the segments numbered in S
DirOfSegments(S) ==
    [exists |-> TRUE,
     files |-> {[name |-> SegmentName(n),
                 data |-> [src |-> PrevFile, part |-> 0, list |-> <<>>]] : n \in S}]

RECURSIVE Pow10(_)
Pow10(w) == IF w = 0 THEN 1 ELSE 10 * Pow10(w - 1)

\* the first segment number "%05d" prints with more than five digits
SegWrap == Pow10(SegPad)

\* a file that is no segment: a segment's temp file (hls_flags temp_file)
TempSegment(n) ==
    [name |-> [stem |-> "segment", num |-> ZeroPad(n, SegPad), ext |-> "ts.tmp"],
     data |-> [src |-> PrevFile, part |-> 0, list |-> <<>>]]

\* the stream directories add_batch_to_hls is started on: missing, empty,
\* left by earlier appends, holding files that are no segments, with a gap
\* in the numbers, and holding the last numbers that print with five digits
HlsStartDirs ==
    {NoDir, EmptyDir, PrevStream(1), PrevStream(MaxSegs + 1),
     [exists |-> TRUE, files |-> {TempSegment(MaxSegs + 2)}],
     [exists |-> TRUE, files |-> PrevStream(1).files \cup {TempSegment(MaxSegs + 2)}],
     DirOfSegments({0, MaxSegs + 1}),
     DirOfSegments({SegWrap - 1 - MaxSegs}),
     DirOfSegments({SegWrap - 2, SegWrap - 1})}

InitHls ==
    /\ mode = "vr180"
    /\ add_audio = FALSE
    /\ nframes = 0
    /\ batch_size = 1
    /\ fps = 1
    /\ pc = "hls_only"
    /\ batches = <<>>
    /\ i = 0
    /\ next_index = 0
    /\ frames_combined = [k \in BatchIdx |-> NoDir]
    /\ anaglyph_out = [k \in BatchIdx |-> NoDir]
    /\ all_frames = NoDir
    /\ tmp_videos = EmptyDir
    /\ out_files = NoDir
    /\ stream \in HlsStartDirs
    /\ final_hls = NoDir
    /\ hls_calls = <<>>
    /\ composited = <<>>
    /\ failed = <<>>
    /\ completed = {}
    /\ reported = FALSE
    /\ ret = "running"
    /\ NoPixels
    /\ NoOthers

\* one successful call add_batch_to_hls(batch_file, stream_dir) in which
\* ffmpeg writes k segments
HlsAppend ==
    /\ pc = "hls_only"
    /\ Len(hls_calls) < MaxCalls
    /\ \E k \in 1..MaxSegs :
          /\ stream' = add_batch_to_hls(stream, BatchMp4(Len(hls_calls)), k)
          /\ hls_calls' = Append(hls_calls,
                                 HlsCall("stream", stream, BatchMp4(Len(hls_calls)), k, TRUE))
    /\ UNCHANGED <<inputs, pixels, others, pc, batches, i, next_index, tmp_tree, out_files, final_hls,
                   composited, failed, completed, reported, ret>>

SpecHls == InitHls /\ [][HlsAppend]_vars

\* ---------------------------------------------- the pixel code on its own
\* no run of main / main_anaglyph is under way
NoRun ==
    /\ mode = "anaglyph"
    /\ add_audio = FALSE
    /\ nframes = 0
    /\ batch_size = 1
    /\ fps = 1
    /\ batches = <<>>
    /\ i = 0
    /\ next_index = 0
    /\ Fresh
    /\ hls_calls = <<>>
    /\ composited = <<>>
    /\ failed = <<>>
    /\ completed = {}
    /\ reported = FALSE
    /\ ret = "running"

\* create_anaglyph_from_stereo on every pair of image files of up to MaxWidth
\* pixels, readable or not
InitAnaglyph ==
    /\ NoRun
    /\ NoOthers
    /\ pc = "anaglyph_only"
    /\ left \in ImageFiles(MaxWidth) \cup {None}
    /\ right \in ImageFiles(MaxWidth) \cup {None}
    /\ anaglyph = <<>>
    /\ frame = None
    /\ depth = None
    /\ max_shift = 0
    /\ stereo = <<>>

CreateAnaglyph ==
    /\ pc = "anaglyph_only"
    /\ anaglyph = <<>>
    /\ \E write_ok \in BOOLEAN :
          anaglyph' = <<create_anaglyph_from_stereo(left, right, write_ok)>>
    /\ UNCHANGED <<inputs, others, pc, batches, i, next_index, tmp_tree, out_tree, logs,
                   left, right, frame, depth, max_shift, stereo>>

SpecAnaglyph == InitAnaglyph /\ [][CreateAnaglyph]_vars

\* generate_stereo_from_depth_frame on every frame of up to MaxCols pixels,
\* with every depth map of its width (or none) and max_shift 0..MaxShift
InitStereo ==
    /\ NoRun
    /\ NoOthers
    /\ pc = "stereo_only"
    /\ left = None
    /\ right = None
    /\ anaglyph = <<>>
    /\ frame \in FrameFiles(MaxCols)
    /\ depth \in [1..Len(frame) -> DepthValues] \cup {None}
    /\ max_shift \in 0..MaxShift
    /\ stereo = <<>>

GenerateStereo ==
    /\ pc = "stereo_only"
    /\ stereo = <<>>
    /\ stereo' = <<generate_stereo_from_depth_frame(imread(frame), depth, max_shift)>>
    /\ UNCHANGED <<inputs, others, pc, batches, i, next_index, tmp_tree, out_tree, logs,
                   left, right, anaglyph, frame, depth, max_shift>>

SpecStereo == InitStereo /\ [][GenerateStereo]_vars

\* flat_to_vr180_spherical_optimized on images of 1..MaxSrc by 1..MaxSrc
\* pixels, black or white, for every field of view of FovValues
InitProjection ==
    /\ NoRun
    /\ NoPixels
    /\ pc = "projection_only"
    /\ mapping_builds = 0
    /\ second_pc = "none"
    /\ scanned = <<>>
    /\ NoStack
    /\ img \in [w : 1..MaxSrc, h : 1..MaxSrc, grey : {0, 255}]
    /\ field_of_view \in FovValues
    /\ projection = <<>>

Project ==
    /\ pc = "projection_only"
    /\ projection = <<>>
    /\ projection' = <<flat_to_vr180_spherical_optimized(img, field_of_view)>>
    /\ UNCHANGED <<inputs, pixels, pc, batches, i, next_index, tmp_tree, out_tree, logs,
                   mapping_builds, second_pc, scanned, left_dir, right_dir, stereo_out,
                   img, field_of_view>>

SpecProjection == InitProjection /\ [][Project]_vars

\* Two requests: process_video hands every request to
\* background_tasks.add_task(process_main, ...), with no lock and no check
\* of a run under way. The first run is the run of Spec; of the second run,
\* on the same working directories, the purge at the start of main is
\* modelled, and the first run is followed up to that purge.
InitConcurrent ==
    /\ mode \in {"vr180", "anaglyph"}
    /\ add_audio \in BOOLEAN
    /\ nframes \in 0..MaxFrames
    /\ batch_size \in 1..MaxBatchSize
    /\ fps \in 1..MaxFps
    /\ pc = "purge"
    /\ batches = <<>>
    /\ i = 0
    /\ next_index = 0
    /\ Fresh \/ Stale
    /\ hls_calls = <<>>
    /\ composited = <<>>
    /\ failed = <<>>
    /\ completed = {}
    /\ reported = FALSE
    /\ ret = "running"
    /\ NoPixels
    /\ mapping_builds = 0
    /\ second_pc = "purge"
    /\ scanned = <<>>
    /\ NoStack
    /\ NoProjection

\* a second purge that waits for the first run to end
SecondPurgeExclusive ==
    /\ second_pc = "purge"
    /\ pc \in {"done", "error"}
    /\ frames_combined' = [k \in BatchIdx |-> NoDir]
    /\ anaglyph_out' = [k \in BatchIdx |-> NoDir]
    /\ all_frames' = NoDir
    /\ tmp_videos' = EmptyDir
    /\ out_files' = EmptyDir
    /\ stream' = EmptyDir
    /\ final_hls' = EmptyDir
    /\ second_pc' = "purged"
    /\ UNCHANGED <<inputs, pixels, mapping_builds, scanned, left_dir, right_dir, stereo_out,
                   img, field_of_view, projection, pc, batches, i, next_index, logs>>

\* main 64-78 in the second run: the temporary and the output tree are
\* removed and recreated, wherever the first run is
SecondPurge ==
    /\ second_pc = "purge"
    /\ frames_combined' = [k \in BatchIdx |-> NoDir]
    /\ anaglyph_out' = [k \in BatchIdx |-> NoDir]
    /\ all_frames' = NoDir
    /\ tmp_videos' = EmptyDir
    /\ out_files' = EmptyDir
    /\ stream' = EmptyDir
    /\ final_hls' = EmptyDir
    /\ second_pc' = "purged"
    /\ UNCHANGED <<inputs, pixels, mapping_builds, scanned, left_dir, right_dir, stereo_out,
                   img, field_of_view, projection, pc, batches, i, next_index, logs>>

\* a step of the first run, before the second run's purge
FirstRun == second_pc = "purge" /\ Next

NextConcurrent ==
    \/ FirstRun
    \/ SecondPurge

SpecConcurrent == InitConcurrent /\ [][NextConcurrent]_vars

\* Appends that overlap in time: add_batch_to_hls is two steps, the scan of
\* line 23 and the ffmpeg run of line 39, and MaxAppenders callers take them
\* in any order on one stream directory, MaxCalls calls in all.
Appenders == 1..MaxAppenders

\* a caller outside add_batch_to_hls
Idle == [at |-> "idle", start |-> 0, before |-> {}, seen |-> 0]

RaceStartDirs ==
    {NoDir, EmptyDir, PrevStream(1), PrevStream(MaxSegs + 1), DirOfSegments({0, MaxSegs + 1})}

InitHlsRace ==
    /\ mode = "vr180"
    /\ add_audio = FALSE
    /\ nframes = 0
    /\ batch_size = 1
    /\ fps = 1
    /\ pc = "hls_race"
    /\ batches = <<>>
    /\ i = 0
    /\ next_index = 0
    /\ frames_combined = [k \in BatchIdx |-> NoDir]
    /\ anaglyph_out = [k \in BatchIdx |-> NoDir]
    /\ all_frames = NoDir
    /\ tmp_videos = EmptyDir
    /\ out_files = NoDir
    /\ stream \in RaceStartDirs
    /\ final_hls = NoDir
    /\ hls_calls = <<>>
    /\ composited = <<>>
    /\ failed = <<>>
    /\ completed = {}
    /\ reported = FALSE
    /\ ret = "running"
    /\ NoPixels
    /\ mapping_builds = 0
    /\ second_pc = "none"
    /\ scanned = [p \in Appenders |-> Idle]
    /\ NoStack
    /\ NoProjection

\* the calls entered and not yet returned
InFlight == Cardinality({p \in Appenders : scanned[p].at = "scanned"})

\* add_batch_to_hls 19-23: os.makedirs, then the scan; the caller keeps the
\* start number (with it, for the log: the segment numbers present and the
\* number of calls that had returned)
ScanStart(p) ==
    /\ pc = "hls_race"
    /\ scanned[p].at = "idle"
    /\ Len(hls_calls) + InFlight < MaxCalls
    /\ stream' = MakeDirs(stream)
    /\ scanned' = [scanned EXCEPT ![p] =
                      [at |-> "scanned",
                       start |-> NextSegmentStartNumber(MakeDirs(stream)),
                       before |-> SegmentNumbers(stream),
                       seen |-> Len(hls_calls)]]
    /\ UNCHANGED <<inputs, pixels, mapping_builds, second_pc, left_dir, right_dir, stereo_out,
                   img, field_of_view, projection, pc, batches, i, next_index, tmp_tree,
                   out_files, final_hls, logs>>

\* an ffmpeg run that numbers its segments from a scan made as it starts
WriteSegmentsRescan(p) ==
    /\ pc = "hls_race"
    /\ scanned[p].at = "scanned"
    /\ \E k \in 1..MaxSegs :
          LET file == BatchMp4(Len(hls_calls))
              start_number == NextSegmentStartNumber(stream)
          IN  /\ stream' = WriteAll(stream, HlsWrites(stream, file, start_number, k))
              /\ hls_calls' = Append(hls_calls,
                                     [dir |-> "stream", file |-> file,
                                      before |-> scanned[p].before,
                                      start |-> start_number,
                                      seen |-> scanned[p].seen,
                                      segs |-> k, ok |-> TRUE])
    /\ scanned' = [scanned EXCEPT ![p] = Idle]
    /\ UNCHANGED <<inputs, pixels, mapping_builds, second_pc, left_dir, right_dir, stereo_out,
                   img, field_of_view, projection, pc, batches, i, next_index, tmp_tree,
                   out_files, final_hls, composited, failed, completed, reported, ret>>

\* add_batch_to_hls 24-40: ffmpeg writes k segments numbered from the
\* start number of the scan, and the call returns
WriteSegments(p) ==
    /\ pc = "hls_race"
    /\ scanned[p].at = "scanned"
    /\ \E k \in 1..MaxSegs :
          LET file == BatchMp4(Len(hls_calls))
              start_number == scanned[p].start
          IN  /\ stream' = WriteAll(stream, HlsWrites(stream, file, start_number, k))
              /\ hls_calls' = Append(hls_calls,
                                     [dir |-> "stream", file |-> file,
                                      before |-> scanned[p].before,
                                      start |-> start_number,
                                      seen |-> scanned[p].seen,
                                      segs |-> k, ok |-> TRUE])
    /\ scanned' = [scanned EXCEPT ![p] = Idle]
    /\ UNCHANGED <<inputs, pixels, mapping_builds, second_pc, left_dir, right_dir, stereo_out,
                   img, field_of_view, projection, pc, batches, i, next_index, tmp_tree,
                   out_files, final_hls, composited, failed, completed, reported, ret>>

NextHlsRace ==
    \E p \in Appenders :
        \/ ScanStart(p)
        \/ WriteSegments(p)

SpecHlsRace == InitHlsRace /\ [][NextHlsRace]_vars

\* The compositors on their own: batch_stack and the anaglyph loop on the
\* left and right directories of one batch of MaxFrames frames, each of
\* which holds any part of the batch's images (cv2.imwrite returns False
\* without raising when it cannot write a file).
StackFrames == read_and_write_batches(MaxFrames, MaxFrames)[1].frames

InitStack ==
    /\ NoRun
    /\ NoPixels
    /\ pc = "stack_only"
    /\ mapping_builds = 0
    /\ second_pc = "none"
    /\ scanned = <<>>
    /\ NoProjection
    /\ \E lfiles \in SUBSET StereoDir(StackFrames).files :
          left_dir = [exists |-> TRUE, files |-> lfiles]
    /\ \E rfiles \in SUBSET StereoDir(StackFrames).files :
          right_dir = [exists |-> TRUE, files |-> rfiles]
    /\ stereo_out = NoDir

\* process_batch 49: batch_stack(vr_left, vr_right, stereo_out)
StackBatch ==
    /\ pc = "stack_only"
    /\ stereo_out' = batch_stack(left_dir, right_dir, stereo_out)
    /\ pc' = "stacked"
    /\ UNCHANGED <<inputs, pixels, mapping_builds, second_pc, scanned, left_dir, right_dir,
                   img, field_of_view, projection, batches, i, next_index, tmp_tree,
                   out_tree, logs>>

\* process_anaglyph_batch 96-112, every create_anaglyph_from_stereo
\* returning True
AnaglyphBatch ==
    /\ pc = "stack_only"
    /\ stereo_out' = anaglyph_loop(left_dir, right_dir, stereo_out, {})
    /\ pc' = "anaglyphs_made"
    /\ UNCHANGED <<inputs, pixels, mapping_builds, second_pc, scanned, left_dir, right_dir,
                   img, field_of_view, projection, batches, i, next_index, tmp_tree,
                   out_tree, logs>>

NextStack ==
    \/ StackBatch
    \/ AnaglyphBatch

SpecStack == InitStack /\ [][NextStack]_vars

\* Names past the padding width. A run reaches frame index 10^6 only after
\* 10^6 copies, so the global sequence and the stream directory are followed
\* through a window: the files written from a starting index on, up to
\* MaxWindow frames and MaxCalls appends. The sorted listing of the window
\* is the sorted listing of the whole directory restricted to the window.
FrameWrap == Pow10(FramePad)

\* where the window starts: at the first frame, or shortly before the first
\* index that "%06d" prints with seven digits
WindowStarts == {0, FrameWrap - 2, FrameWrap - 1}

\* the stream directory at the start of the window: empty, or holding the
\* last segments that "%05d" prints with five digits
WindowStreams == {EmptyDir, DirOfSegments({SegWrap - 2}), DirOfSegments({SegWrap - 1})}

InitOrder ==
    /\ mode = "vr180"
    /\ add_audio = FALSE
    /\ nframes = 0
    /\ batch_size = 1
    /\ fps = 1
    /\ pc = "order_only"
    /\ batches = <<>>
    /\ i = 0
    /\ next_index \in WindowStarts
    /\ frames_combined = [k \in BatchIdx |-> NoDir]
    /\ anaglyph_out = [k \in BatchIdx |-> NoDir]
    /\ all_frames = EmptyDir
    /\ tmp_videos = EmptyDir
    /\ out_files = NoDir
    /\ stream \in WindowStreams
    /\ final_hls = NoDir
    /\ hls_calls = <<>>
    /\ composited = <<>>
    /\ failed = <<>>
    /\ completed = {}
    /\ reported = FALSE
    /\ ret = "running"
    /\ NoPixels
    /\ NoOthers

\* main 107-109: one frame copied to frame_{next_index:06d}.png
CopyFrame ==
    /\ pc = "order_only"
    /\ Cardinality(all_frames.files) < MaxWindow
    /\ all_frames' = WriteFile(all_frames, FrameName(next_index),
                               [run |-> "cur", left |-> next_index, right |-> next_index])
    /\ next_index' = next_index + 1
    /\ UNCHANGED <<inputs, pixels, others, pc, batches, i, frames_combined, anaglyph_out,
                   tmp_videos, out_tree, logs>>

\* main 117: one successful add_batch_to_hls on the stream directory
AppendSegments ==
    /\ pc = "order_only"
    /\ Len(hls_calls) < MaxCalls
    /\ \E k \in 1..MaxSegs :
          /\ stream' = add_batch_to_hls(stream, BatchMp4(Len(hls_calls)), k)
          /\ hls_calls' = Append(hls_calls,
                                 HlsCall("stream", stream, BatchMp4(Len(hls_calls)), k, TRUE))
    /\ UNCHANGED <<inputs, pixels, others, pc, batches, i, next_index, tmp_tree, out_files,
                   final_hls, composited, failed, completed, reported, ret>>

NextOrder ==
    \/ CopyFrame
    \/ AppendSegments

SpecOrder == InitOrder /\ [][NextOrder]_vars

\* ================================================================ claims
RECURSIVE SumSeq(_)
SumSeq(q) == IF Len(q) = 0 THEN 0 ELSE q[1] + SumSeq(Tail(q))

\* ceil(a / b)
CeilDiv(a, b) == (a + b - 1) \div b

Min(a, b) == IF a < b THEN a ELSE b

\* the batch loop has ended (all batches assembled)
LoopEnded ==
    \/ pc \in {"mux", "stream_combined", "inject", "finished", "final_hls", "done"}
    \/ pc = "batch" /\ i >= Len(batches)
    \/ pc = "error" /\ Len(failed) > 0
          /\ failed[Len(failed)] \in {"final_encode", "mux", "stream_combined", "inject"}

\* at least one batch has been completed, or the loop has ended
AfterBatch == pc \in {"hls", "batch"} \/ LoopEnded

\* C1 (as claimed): after every completed batch and at the end of the loop
\* the global sequence directory holds exactly frame_000000 ..
\* frame_{next_index-1}, one file per index, and once the loop has ended
\* next_index equals the sum of the composite frames the compositor produced
\* for the batches of this run.
C1_SequenceMatchesComposites ==
    AfterBatch =>
        /\ Names(all_frames) = {FrameName(j) : j \in 0..(next_index - 1)}
        /\ Cardinality(all_frames.files) = next_index
        /\ LoopEnded => next_index = SumSeq(composited)

\* C1: the counter never decreases and is not reset once the loop runs
C1_CounterMonotonic == [][next_index' >= next_index]_vars

\* C2: for N >= 1 decoded frames and batch size B >= 1 the extractor returns
\* ceil(N/B) batches numbered 0,1,2,...; batch k covers [k*B, min((k+1)*B, N)-1]
\* and lists exactly those frames in increasing order; every batch but the
\* last has B frames and none is empty.
C2_BatchesPartitionFrames ==
    (pc = "midas" /\ nframes >= 1) =>
        /\ Len(batches) = CeilDiv(nframes, batch_size)
        /\ \A k \in 1..Len(batches) :
              LET b == batches[k]
                  lo == (k - 1) * batch_size
                  hi == Min(k * batch_size, nframes) - 1
              IN  /\ b.batch_idx = k - 1
                  /\ b.start_frame = lo
                  /\ b.end_frame = hi
                  /\ b.frames = [j \in 1..(hi - lo + 1) |-> FrameName(lo + j - 1)]
                  /\ Len(b.frames) >= 1
                  /\ k < Len(batches) => Len(b.frames) = batch_size

\* C2 witness: a source that is not a multiple of the batch size has been
\* split into several full batches and a short last one
C2_Witness ==
    /\ pc = "midas"
    /\ Len(batches) >= 3
    /\ Len(batches[Len(batches)].frames) < batch_size
    /\ Len(batches[1].frames) = batch_size

\* the steps that raised
Failed == {failed[j] : j \in 1..Len(failed)}

\* the calls of add_batch_to_hls on a directory, in order
CallsOn(which) == SelectSeq(hls_calls, LAMBDA c : c.dir = which)

\* C3 (as claimed): in a run over N batches in which no append fails, the
\* append is invoked on the incremental stream directory exactly N times,
\* call k with batch k's own re-encoded file.
C3_OneStreamAppendPerBatch ==
    (pc = "done" /\ Failed = {}) =>
        /\ Len(CallsOn("stream")) = Len(batches)
        /\ \A k \in 1..Len(CallsOn("stream")) : CallsOn("stream")[k].file = BatchMp4(k - 1)

\* C4 (as claimed): across sequential successful calls of add_batch_to_hls on
\* a directory that already holds segments, every call numbers its segments
\* right after the largest number present, so that no existing segment is
\* overwritten, no number is used twice and the numbers form one gap-free run.
C4_SegmentNumbersGapFree ==
    \A c \in 1..Len(hls_calls) :
        LET call == hls_calls[c]
            written == call.start..(call.start + call.segs - 1)
        IN  /\ written \cap call.before = {}
            /\ call.start = IF call.before = {} THEN 0 ELSE SetMax(call.before) + 1

\* C5 (as claimed): _next_segment_start_number returns 0 for a missing
\* directory or one without segment files, and otherwise 1 + the largest
\* number of a segment file in it; other files do not count.
C5_NextStartIsMaxPlusOne ==
    pc = "hls_only" =>
        NextSegmentStartNumber(stream) =
            IF SegmentNumbers(stream) = {} THEN 0 ELSE 1 + SetMax(SegmentNumbers(stream))

\* C6: a failure of a batch's incremental encode or append is skipped: the
\* step that handles batch i's incremental segment, failing or not, leaves the
\* global counter and the global sequence as they are and goes on to the next
\* batch, and the final video holds all frames of the global sequence, which
\* then holds every frame of every batch's frame directory.
C6_Step ==
    pc = "hls" =>
        /\ pc' = "batch"
        /\ i' = i + 1
        /\ next_index' = next_index
        /\ all_frames' = all_frames
        /\ ret' = "running"

C6_FinalVideoComplete ==
    "final_encode" \in completed =>
        /\ Len(FileAt(out_files, CombinedOut).data.frames) = next_index
        /\ next_index = SumSeq([k \in 1..Len(batches) |->
                                    Cardinality(frames_combined[k - 1].files)])
        /\ FileAt(out_files, CombinedOut).data.frames = EncodedFrames(all_frames)

C6_AppendFailureSkipped == [][C6_Step]_vars /\ []C6_FinalVideoComplete

\* C6 witness: a batch's incremental segment failed, a later batch was
\* processed and the final video was encoded
C6_Witness ==
    /\ Len(failed) > 0
    /\ failed[1] \in {"batch_encode", "batch_append"}
    /\ Len(batches) >= 2
    /\ Len(composited) = Len(batches)
    /\ "final_encode" \in completed

\* C7 (as claimed): a failure of the append that builds the final stream is
\* surfaced to the caller; the run does not complete normally.
C7_FinalAppendFailureFatal ==
    "final_hls" \in Failed => (pc = "error" /\ ret = "raised")

\* C8 (as claimed): the run reports success only if the final encode and the
\* metadata injection both completed; a failing final encode, audio mux or
\* metadata injection aborts the run, which never reports success.
C8_SuccessNeedsEncodeAndMetadata ==
    /\ reported => {"final_encode", "inject"} \subseteq completed
    /\ Failed \cap {"final_encode", "mux", "inject"} # {} =>
          (pc = "error" /\ ~reported /\ ret = "raised")

\* C8 (amended): a VR180 run reports success only if the final encode, the
\* audio mux (when audio is included) and the metadata injection completed;
\* an anaglyph run, which has no metadata injection, only if the final encode
\* and the audio mux (when included) completed; a failure of any of these
\* steps aborts the run, which never reports success.
C8_SuccessNeedsFinalSteps ==
    /\ reported =>
          /\ "final_encode" \in completed
          /\ add_audio => "mux" \in completed
          /\ mode = "vr180" => "inject" \in completed
          /\ mode = "anaglyph" => "inject" \notin completed
    /\ Failed \cap {"final_encode", "mux", "inject"} # {} =>
          (pc = "error" /\ ~reported /\ ret = "raised")

\* C8 witness: an anaglyph run has reported success and returned
C8_Witness == reported /\ mode = "anaglyph" /\ pc = "done" /\ add_audio

\* C9 (as claimed): on a successful run the entry point returns the path of
\* the final output file: main the metadata-injected file, main_anaglyph the
\* anaglyph file.
C9_ReturnsFinalPath ==
    pc = "done" => ret = IF mode = "vr180" THEN FinalWithMeta ELSE CombinedOut

\* C10 (as claimed): before frame extraction the temporary tree, the output
\* tree, the incremental-stream and the final-stream directory hold nothing of
\* an earlier run, and the first segment appended to the incremental stream
\* in the run is number 0.
C10_RunStartsClean ==
    /\ pc = "read" =>
          /\ \A k \in BatchIdx : frames_combined[k].files = {} /\ anaglyph_out[k].files = {}
          /\ all_frames.files = {}
          /\ tmp_videos.files = {}
          /\ out_files.files = {}
          /\ stream.files = {}
          /\ final_hls.files = {}
    /\ Len(CallsOn("stream")) > 0 => CallsOn("stream")[1].start = 0

\* the step that raised last
LastFailed == IF Len(failed) = 0 THEN "none" ELSE failed[Len(failed)]

\* the segment files of a directory
SegmentFiles(dir) == {f \in dir.files : IsSegmentFile(f.name)}

\* C11 (as claimed): when the start-of-run purge or the recreation of the
\* working directories fails, the run fails at that point: no frame is
\* extracted and no batch is processed.
C11_PurgeFailureFatal ==
    "purge" \in Failed =>
        /\ pc = "error"
        /\ ret = "raised"
        /\ batches = <<>>
        /\ composited = <<>>

\* C12: a step that aborts the run (during a batch's processing or assembly,
\* the final encode, the audio mux, the append of the final video or the
\* metadata injection) deletes or rewrites no frame of the global sequence and
\* no segment of the incremental stream, and nothing changes afterwards.
C12_Step ==
    /\ (pc \in {"batch", "assemble", "mux", "stream_combined", "inject"} /\ pc' = "error") =>
          /\ all_frames.files \subseteq all_frames'.files
          /\ SegmentFiles(stream) \subseteq SegmentFiles(stream')
    /\ pc = "error" => (all_frames' = all_frames /\ stream' = stream)

C12_AbortKeepsArtifacts == [][C12_Step]_vars

\* C12 witness: the run was aborted by the final encode, the mux or the
\* metadata injection with frames in the global sequence and segments in the
\* incremental stream
C12_Witness ==
    /\ pc = "error"
    /\ LastFailed \in {"final_encode", "mux", "inject"}
    /\ Cardinality(all_frames.files) >= 2
    /\ SegmentFiles(stream) # {}

\* C13: when the processing of batch k fails the run stops; the counter and
\* the global sequence are as batch k-1 left them (no frame of batch k is
\* appended) and no incremental segment is published for batch k.
C13_Step ==
    failed' = Append(failed, "process_batch") =>
        /\ pc' = "error"
        /\ next_index' = next_index
        /\ all_frames' = all_frames
        /\ stream' = stream
        /\ hls_calls' = hls_calls

C13_FailedBatchNotAssembled ==
    "process_batch" \in Failed =>
        /\ pc = "error"
        /\ Len(composited) = i
        /\ next_index = SumSeq([k \in 1..i |-> Cardinality(frames_combined[k - 1].files)])
        /\ Names(all_frames) = {FrameName(j) : j \in 0..(next_index - 1)}
        /\ \A c \in 1..Len(hls_calls) : hls_calls[c].file # BatchMp4(i)

C13_BatchFailureAppendsNothing == [][C13_Step]_vars /\ []C13_FailedBatchNotAssembled

\* C13 witness: the second batch failed after the first was assembled and
\* published
C13_Witness ==
    /\ LastFailed = "process_batch"
    /\ i = 1
    /\ next_index >= 1
    /\ Len(CallsOn("stream")) = 1

\* C14 (as claimed): with a source that decodes zero frames the run aborts
\* in the frame extractor: the depth model is not loaded, no audio is
\* extracted and no final encode is attempted.
C14_EmptySourceAborts ==
    (nframes = 0 /\ pc \notin {"purge", "read"}) =>
        (pc = "error" /\ LastFailed = "read")

\* C15 (as claimed): for readable left and right images of the same size the
\* anaglyph file that create_anaglyph_from_stereo writes has, at every pixel,
\* the red of the left image and the green and blue of the right image.
C15_AnaglyphChannels ==
    (Len(anaglyph) = 1 /\ left # None /\ right # None /\ Len(left) = Len(right)
        /\ anaglyph[1].ret) =>
        /\ Len(anaglyph[1].file) = Len(left)
        /\ \A x \in 1..Len(left) :
              /\ anaglyph[1].file[x].r = left[x].r
              /\ anaglyph[1].file[x].g = right[x].g
              /\ anaglyph[1].file[x].b = right[x].b

\* the depth map is uniform (or absent, which the code takes for all ones)
UniformDepth == depth = None \/ \A x \in 1..Len(depth) : depth[x] = depth[1]

\* C16 (as claimed): for a uniform depth field with shift d the scatter step
\* yields left[x] = frame[x-d] for d <= x <= W-1 and right[x] = frame[x+d]
\* for 0 <= x <= W-1-d, the clamped border columns included, and leaves
\* exactly the d uncovered columns of each eye as holes (a black source pixel
\* is masked as well: that is C25's subject).
C16_UniformDepthTranslates ==
    (Len(stereo) = 1 /\ UniformDepth) =>
        LET W == Len(frame)
            f == imread(frame)
            d == ShiftRow(depth, max_shift, W)[1]
            l == stereo[1].left_eye
            r == stereo[1].right_eye
        IN  /\ d \in 0..max_shift
            /\ \A x \in 0..(W - 1) :
                  /\ x >= d => (l[x + 1] = f[x - d + 1]
                                /\ (f[x - d + 1] # Zero => ~stereo[1].mask_left[x + 1]))
                  /\ x < d => (l[x + 1] = Zero /\ stereo[1].mask_left[x + 1])
                  /\ x <= W - 1 - d => (r[x + 1] = f[x + d + 1]
                                        /\ (f[x + d + 1] # Zero => ~stereo[1].mask_right[x + 1]))
                  /\ x > W - 1 - d => (r[x + 1] = Zero /\ stereo[1].mask_right[x + 1])

\* C17 (as claimed): the final stream is built by exactly one append per run,
\* made after the final encode, the audio mux (when audio is included) and the
\* metadata injection (VR180) have completed; no per-batch file is ever
\* appended to the final-stream directory; and after the append that
\* directory holds only segments of the final output file, numbered from 0.
C17_FinalStreamBuiltOnce ==
    /\ Len(CallsOn("final_hls")) <= 1
    /\ pc = "done" => Len(CallsOn("final_hls")) = 1
    /\ Len(CallsOn("final_hls")) = 1 =>
          /\ "final_encode" \in completed
          /\ add_audio => "mux" \in completed
          /\ mode = "vr180" => "inject" \in completed
          /\ CallsOn("final_hls")[1].file = FinalHlsInput
    /\ \A c \in 1..Len(hls_calls) :
          hls_calls[c].file.kind = "batch" => hls_calls[c].dir = "stream"
    /\ "final_hls" \in completed =>
          /\ \A f \in SegmentFiles(final_hls) : f.data.src = FinalHlsInput
          /\ SegmentNumbers(final_hls) = 0..(CallsOn("final_hls")[1].segs - 1)

\* the final video file of the mode
FinalFile == IF mode = "vr180" THEN FinalWithMeta ELSE CombinedOut

\* C18 (as claimed): after a successful run the output directory holds exactly
\* one video file, the final file of the mode, next to the incremental
\* playlist with its segments and the final playlist with its segments.
C18_OneFinalVideo ==
    (pc = "done" /\ Failed = {}) =>
        /\ Names(out_files) = {FinalFile}
        /\ PlaylistName \in Names(stream) /\ SegmentFiles(stream) # {}
        /\ PlaylistName \in Names(final_hls) /\ SegmentFiles(final_hls) # {}

\* the frames of the batch directories 0..n-1, one batch after the other
RECURSIVE FramesOfBatches(_)
FramesOfBatches(n) ==
    IF n = 0 THEN <<>>
    ELSE FramesOfBatches(n - 1) \o EncodedFrames(frames_combined[n - 1])

\* C19: batches are processed one at a time in increasing index order: the
\* processing of batch i begins only when the batches 0..i-1 have all been
\* processed and all their frames are in the global sequence, in order; the
\* loop index only ever moves to the next batch.
C19_Step ==
    /\ (pc = "batch" /\ pc' = "assemble") =>
          /\ batches[i + 1].batch_idx = i
          /\ Len(composited) = i
          /\ i' = i
          /\ Len(composited') = i + 1
          /\ next_index = Cardinality(all_frames.files)
          /\ EncodedFrames(all_frames) = FramesOfBatches(i)
    /\ (pc = "assemble" /\ pc' = "hls") =>
          EncodedFrames(all_frames') = FramesOfBatches(i + 1)
    /\ i' = i \/ (i' = i + 1 /\ pc = "hls")

C19_BatchesInOrder == [][C19_Step]_vars

\* C19 witness: the third batch has been processed after two were assembled
C19_Witness ==
    /\ pc = "assemble"
    /\ i = 2
    /\ Len(composited) = 3
    /\ next_index >= 2

\* C20 (as claimed): in a run that completes normally nothing but per-batch
\* incremental appends has failed, and every frame of every batch has got its
\* composite or anaglyph frame.
C20_NoFailureSwallowed ==
    pc = "done" =>
        /\ Failed \subseteq {"batch_encode", "batch_append"}
        /\ \A k \in 1..Len(batches) : composited[k] = Len(batches[k].frames)

\* C21 (as claimed): for a field of view of 180 degrees or more the mapping
\* marks every destination pixel invalid and the projected image is black
\* all over (and the projection returns).
C21_WideFovAllInvalid ==
    (Len(projection) = 1 /\ field_of_view >= 180) =>
        \A y \in 1..output_height : \A x \in 1..output_width :
            /\ ~projection[1].valid_mask[y][x]
            /\ projection[1].result[y][x] = 0

\* C22 (as claimed): in a run that completes, the frame at global index k is
\* the composite of source frame k, and the global sequence has as many frames
\* as the source decoded, in both modes.
C22_GlobalIndexIsSourceIndex ==
    pc = "done" =>
        LET g == EncodedFrames(all_frames)
        IN  /\ Len(g) = nframes
            /\ \A k \in 1..Len(g) : g[k] = [run |-> "cur", left |-> k - 1, right |-> k - 1]

\* the frames of the video file a segment was cut from
VideoOf(src) ==
    CASE src.kind = "batch" -> FileAt(tmp_videos, src).data.frames
      [] src.kind = "combined" -> FileAt(out_files, CombinedOut).data.frames
      [] src.kind = "final_with_meta" -> FileAt(out_files, FinalWithMeta).data.frames
      [] OTHER -> PrevVideo.frames

\* the frames of one segment: part p of its video, HlsTime seconds long
SegmentFrames(seg) ==
    LET v == VideoOf(seg.src)
        lo == seg.part * HlsTime * fps + 1
        hi == Min((seg.part + 1) * HlsTime * fps, Len(v))
    IN  SubSeq(v, lo, hi)

\* the frames a player of the playlist gets: the segments the playlist of
\* the directory lists, one after the other
RECURSIVE CoverageOf(_, _)
CoverageOf(dir, list) ==
    IF Len(list) = 0 THEN <<>>
    ELSE SegmentFrames(FileAt(dir, SegmentName(list[1])).data) \o CoverageOf(dir, Tail(list))

StreamCoverage(dir) == CoverageOf(dir, PlaylistOf(dir))

\* C23 (as claimed): when nothing fails, the incremental stream covers, after
\* the append of batch k, exactly the frames of the batches 0..k, each once
\* and in order, and at the end of the run exactly the frames of the global
\* sequence, each once.
C23_StreamMatchesSequence ==
    Failed = {} =>
        /\ (pc = "batch" /\ i >= 1) => StreamCoverage(stream) = FramesOfBatches(i)
        /\ pc = "done" => StreamCoverage(stream) = EncodedFrames(all_frames)

\* a - b without its sign
AbsDiff(a, b) == IF a >= b THEN a - b ELSE b - a

\* C24 (as claimed): for every depth value v and every max_shift the shift
\* of a pixel is (1 - v/255) * max_shift rounded to the nearest integer (at
\* most half a pixel from the exact product); it is 0 for v = 255, max_shift
\* for v = 0, and lies in 0..max_shift.
C24_ShiftRoundedToNearest ==
    (Len(stereo) = 1 /\ depth # None) =>
        \A x \in 1..Len(depth) :
            LET v == depth[x]
                d == stereo[1].shift[x]
            IN  /\ 2 * AbsDiff(255 * d, (255 - v) * max_shift) <= 255
                /\ v = 255 => d = 0
                /\ v = 0 => d = max_shift
                /\ d \in 0..max_shift

\* the columns x (0-based) of the frame whose pixel the scatter writes at
\* column t of the left eye, and of the right eye
WritersLeft(t) ==
    {x \in 0..(Len(frame) - 1) : Min(Len(frame) - 1, x + stereo[1].shift[x + 1]) = t}

WritersRight(t) ==
    {x \in 0..(Len(frame) - 1) :
        (IF x - stereo[1].shift[x + 1] < 0 THEN 0 ELSE x - stereo[1].shift[x + 1]) = t}

\* what one eye must be at column t, given the columns that wrote there: a
\* hole exactly when the channels sum to zero; filled when nothing was
\* written or the last pixel written was pure black; otherwise returned as
\* the last pixel written
HoleRule(writers, eye, mask, filled, t) ==
    /\ mask[t + 1] <=> (eye[t + 1][1] + eye[t + 1][2] + eye[t + 1][3] = 0)
    /\ writers = {} => (mask[t + 1] /\ filled[t + 1] = Inpainted)
    /\ writers # {} =>
          LET src == imread(frame)[SetMax(writers) + 1]
          IN  IF src = Zero THEN mask[t + 1] /\ filled[t + 1] = Inpainted
              ELSE ~mask[t + 1] /\ filled[t + 1] = src

\* C25: the holes of an eye are exactly its pixels whose three channels sum
\* to zero; a pixel that received no write is filled, a pixel that received
\* a write is returned untouched unless the pixel written was pure black, and
\* each eye's holes and filling are determined by that eye's writes alone.
C25_HolesAreZeroSumPixels ==
    Len(stereo) = 1 =>
        \A t \in 0..(Len(frame) - 1) :
            /\ HoleRule(WritersLeft(t), stereo[1].left_eye, stereo[1].mask_left,
                        stereo[1].ret[1], t)
            /\ HoleRule(WritersRight(t), stereo[1].right_eye, stereo[1].mask_right,
                        stereo[1].ret[2], t)

\* a frame whose left eye has an unwritten hole, a written black pixel and a
\* written coloured pixel, and whose right eye has other holes than the left
C25_Witness ==
    /\ Len(stereo) = 1
    /\ \E t \in 0..(Len(frame) - 1) : WritersLeft(t) = {}
    /\ \E t \in 0..(Len(frame) - 1) :
          WritersLeft(t) # {} /\ stereo[1].left_eye[t + 1] = Zero
    /\ \E t \in 0..(Len(frame) - 1) :
          WritersLeft(t) # {} /\ stereo[1].left_eye[t + 1] # Zero
    /\ stereo[1].mask_left # stereo[1].mask_right

\* C26 (as claimed): in a VR180 run the projection mapping is built exactly
\* once and reused for every frame of every batch and both eyes: the number
\* of builds never exceeds one, whatever the number of batches.
C26_MappingBuiltOnce ==
    mode = "vr180" =>
        /\ mapping_builds <= 1
        /\ pc = "done" => mapping_builds = 1

\* the global sequence holds exactly the frames 0..next_index-1
SequenceContiguous ==
    Names(all_frames) = {FrameName(j) : j \in 0..(next_index - 1)}

\* the second run's purge, as a step
C27_Step ==
    (second_pc = "purge" /\ second_pc' = "purged") =>
        /\ all_frames' = NoDir
        /\ next_index' = next_index
        /\ <<pc, i, batches, failed, ret, reported>>' = <<pc, i, batches, failed, ret, reported>>

\* C27: with two runs on one working directory, the second run's purge can
\* be taken wherever the first run is (nothing prevents it); it deletes the
\* frames the first run has appended while the first run's counter, position
\* and error record stay as they were (nothing detects it), so the global
\* sequence is no longer the range [0, next_index-1].
C27_PurgeUnderARun ==
    /\ [](second_pc = "purge" => ENABLED SecondPurge)
    /\ [][C27_Step]_vars
    /\ []((second_pc = "purged" /\ next_index >= 1) => ~SequenceContiguous)

\* the second run has purged while the first, with frames appended, is in
\* its batch loop; before the purge the sequence was contiguous
C27_Witness ==
    /\ second_pc = "purged"
    /\ pc \in {"batch", "assemble", "hls"}
    /\ next_index >= 1
    /\ failed = <<>>
    /\ ~SequenceContiguous

\* the segment numbers call c wrote
NumbersOf(c) == hls_calls[c].start..(hls_calls[c].start + hls_calls[c].segs - 1)

\* a call returns: its segments carry the numbers of its own earlier scan
C28_Step ==
    Len(hls_calls') = Len(hls_calls) + 1 =>
        \E p \in Appenders :
            /\ scanned[p].at = "scanned"
            /\ scanned'[p].at = "idle"
            /\ LET call == hls_calls'[Len(hls_calls')]
               IN  /\ call.start = scanned[p].start
                   /\ \A n \in call.start..(call.start + call.segs - 1) :
                         SegmentName(n) \in Names(stream')

\* C28: add_batch_to_hls scans for the start number first and writes
\* afterwards, under the number it scanned, whatever was written in between;
\* a call that scanned after an earlier call had returned writes numbers
\* disjoint from that call's, so numbers are unique when the appends on a
\* directory are strictly serialized.
C28_ScanThenWrite ==
    /\ [][C28_Step]_vars
    /\ [](\A c \in 1..Len(hls_calls) : \A e \in 1..Len(hls_calls) :
             e <= hls_calls[c].seen => NumbersOf(e) \cap NumbersOf(c) = {})

\* two overlapping appends that obtained the same start number and wrote
\* segments under the same numbers
C28_Witness ==
    \E c \in 1..Len(hls_calls) : \E e \in 1..Len(hls_calls) :
        /\ e < c
        /\ hls_calls[c].seen < e
        /\ hls_calls[c].start = hls_calls[e].start
        /\ NumbersOf(e) \cap NumbersOf(c) # {}

\* the frames of the batch of which a directory holds the image
FramesIn(dir) == {ParseInt(nm) : nm \in Names(dir)}

\* C29 (as claimed): the compositor produces exactly one composite frame per
\* source frame whose left and right images exist, each combining the left
\* and the right image of that same frame, and drops none of them, also when
\* the left and right directories do not hold the same file names.
C29_OneCompositePerFrame ==
    pc \in {"stacked", "anaglyphs_made"} =>
        /\ \A f \in stereo_out.files : f.data.left = f.data.right
        /\ \A j \in FramesIn(left_dir) \cap FramesIn(right_dir) :
              Cardinality({f \in stereo_out.files :
                              f.data.left = j /\ f.data.right = j}) = 1

\* C30 (as claimed): the frames are read in sorted-name order, and that
\* order is increasing frame index; the scan of the segment names returns
\* 1 + the largest segment number; both for every index, also those that
\* need more digits than the padding width.
C30_NameOrderIsIndexOrder ==
    pc = "order_only" =>
        /\ LET read == EncodedFrames(all_frames)
           IN  \A j \in 1..(Len(read) - 1) : read[j].left < read[j + 1].left
        /\ SegmentNumbers(stream) # {} =>
              NextSegmentStartNumber(stream) = 1 + SetMax(SegmentNumbers(stream))

====
